---------------------------- MODULE Spec2Model ----------------------------
(***************************************************************************)
(* QGeoPositionInfoSourceGeoclue2: the client lifecycle of the GeoClue2    *)
(* position source (qgeopositioninfosource_geoclue2.cpp).                  *)
(*                                                                         *)
(* The object lives on one event-loop thread.  Every public call, timer    *)
(* expiry, D-Bus reply, D-Bus signal and queued invocation is one atomic   *)
(* step.  A handler is a composition of the member functions it calls;     *)
(* each member function is an operator from an object state (a record of   *)
(* the member fields plus the D-Bus calls and signals produced so far in   *)
(* the running handler) to the object state it leaves.                     *)
(***************************************************************************)
EXTENDS Integers, Sequences, FiniteSets, TLC

(***************************************************************************)
(* Program constants.                                                      *)
(***************************************************************************)
MINIMUM_UPDATE_INTERVAL == 1000
UPDATE_TIMEOUT_COLD_START == 120000

GCLUE_ACCURACY_LEVEL_NONE == 0
GCLUE_ACCURACY_LEVEL_COUNTRY == 1
GCLUE_ACCURACY_LEVEL_CITY == 4
GCLUE_ACCURACY_LEVEL_NEIGHBORHOOD == 5
GCLUE_ACCURACY_LEVEL_STREET == 6
GCLUE_ACCURACY_LEVEL_EXACT == 8

(***************************************************************************)
(* Bounds of the model.                                                    *)
(***************************************************************************)
\* D-Bus calls that may be outstanding when the environment makes a new input
MaxPending == 2
\* queued (Qt::QueuedConnection) invocations that may wait in the event loop
MaxQueued == 1
\* distinct valid position fixes the service can report
MaxFix == 1

(***************************************************************************)
(* Value sets.                                                             *)
(***************************************************************************)
NoError == "NoError"
AccessError == "AccessError"
UnknownSourceError == "UnknownSourceError"
Errors == {NoError, AccessError, UnknownSourceError}

\* m_client is a QPointer: null, or one live proxy object
NoClient == 0
Clients == 1..(MaxPending + 2)

\* a QGeoPositionInfo: 0 is the invalid (default-constructed) record
NoFix == 0
Fixes == 1..MaxFix

\* arguments of requestUpdate() the environment tries
Timeouts == {-1, 0, 999, 1000}

SatellitePositioningMethods == "Satellite"
NonSatellitePositioningMethods == "NonSatellite"
AllPositioningMethods == "All"
NoPositioningMethods == "None"
Methods ==
    {SatellitePositioningMethods, NonSatellitePositioningMethods,
     AllPositioningMethods, NoPositioningMethods}

\* properties of a freshly created client proxy, before configureClient()
NoProps == [desktopId |-> "", timeThreshold |-> 0, accuracy |-> GCLUE_ACCURACY_LEVEL_NONE]

VARIABLES
    m_running,      \* continuous demand (startUpdates .. stopUpdates)
    m_requestTimer, \* the single-shot timer: 0 when not active, else its interval
    m_client,       \* the session handle: NoClient or a proxy object
    live,           \* the client proxy objects created and not yet deleted
    clientStarted,  \* a Start() on m_client has succeeded (and no Stop() completed)
    clientProps,    \* properties pushed to m_client
    m_error,        \* latest error
    m_lastPosition, \* stored fix
    pending,        \* outstanding D-Bus calls, in the order they were issued
    queued,         \* queued positionUpdated invocations (their arguments)
    desktopId,      \* QT_GEOCLUE_APP_DESKTOP_ID, else the application name
    updateInterval, \* QGeoPositionInfoSource::updateInterval()
    preferredMethods, \* QGeoPositionInfoSource::preferredPositioningMethods()
    crashed,        \* the process has dereferenced a null m_client and died
    expiry,         \* history: how the timer last expired with no continuous demand
    op,             \* the handler that ran last
    calls,          \* D-Bus calls issued by that handler, in order
    events,         \* signals emitted by that handler, in order
    log             \* what that handler did, in order: stores, signals, calls

vars ==
    <<m_running, m_requestTimer, m_client, live, clientStarted, clientProps,
      m_error, m_lastPosition, pending, queued, desktopId, updateInterval,
      preferredMethods, crashed, expiry, op, calls, events, log>>

(***************************************************************************)
(* The object state a handler starts from: the member fields, nothing      *)
(* issued or emitted yet.                                                  *)
(***************************************************************************)
Self ==
    [running |-> m_running, timer |-> m_requestTimer,
     client |-> m_client, live |-> live, started |-> clientStarted,
     props |-> clientProps,
     error |-> m_error, lastPosition |-> m_lastPosition,
     pending |-> pending, queued |-> queued, crashed |-> FALSE,
     calls |-> <<>>, events |-> <<>>, log |-> <<>>]

\* m_requestTimer->isActive()
IsActive(s) == s.timer # 0

ErrorEvent(e) == [type |-> "error", kind |-> e, fix |-> NoFix]
PositionEvent(f) == [type |-> "positionUpdated", kind |-> NoError, fix |-> f]

\* a pending D-Bus call; client is the proxy it was made on (NoClient: the manager)
Call(k, c) == [kind |-> k, client |-> c]

\* issue an asynchronous D-Bus call: a watcher waits for its reply
Issue(s, k, c) ==
    [s EXCEPT !.pending = Append(@, Call(k, c)), !.calls = Append(@, Call(k, c)),
              !.log = Append(@, k)]

\* `delete m_client': the QPointer becomes null
DeleteClient(s) ==
    [s EXCEPT !.client = NoClient, !.live = @ \ {s.client},
              !.started = FALSE, !.props = NoProps]

\* the proxy objects m_client, the heap or an outstanding call refer to
InUse(s) ==
    {s.client} \cup s.live \cup {s.pending[i].client : i \in 1..Len(s.pending)}

\* a proxy object not referred to by m_client or by an outstanding call
NewClient(s) ==
    CHOOSE c \in Clients :
        /\ c \notin InUse(s)
        /\ \A d \in Clients : d \notin InUse(s) => c <= d

(***************************************************************************)
(* setError()                                                              *)
(***************************************************************************)
\* setError() emitting the error without storing it
SetErrorNoStore(s, e) ==
    [s EXCEPT !.events = IF e # NoError THEN Append(@, ErrorEvent(e)) ELSE @]

SetError(s, e) ==
    [s EXCEPT !.error = e,
              !.events = IF e # NoError THEN Append(@, ErrorEvent(e)) ELSE @,
              !.log = IF e # NoError THEN Append(@, "error") ELSE @]

(***************************************************************************)
(* createClient(): the call part; the reply is CreateReply below.          *)
(***************************************************************************)
CreateClient(s) == Issue(s, "create", NoClient)

(***************************************************************************)
(* startClient(): the call part; the reply is StartReply below.            *)
(***************************************************************************)
\* startClient() without its `someone asked for it' return
StartClientNoGuard(s) ==
    IF s.client = NoClient THEN CreateClient(s)
    ELSE Issue(s, "start", s.client)

StartClient(s) ==
    IF ~s.running /\ ~IsActive(s) THEN s
    ELSE IF s.client = NoClient THEN CreateClient(s)
    ELSE Issue(s, "start", s.client)

(***************************************************************************)
(* stopClient(): the call part; the reply is StopReply below.              *)
(***************************************************************************)
\* stopClient() without the check of the request timer
StopClientIgnoringTimer(s) ==
    IF s.running \/ s.client = NoClient THEN s
    ELSE Issue(s, "stop", s.client)

StopClient(s) ==
    LET s1 == [s EXCEPT !.log = Append(@, "stopClient")]
    IN  IF IsActive(s) \/ s.running \/ s.client = NoClient THEN s1
        ELSE Issue(s1, "stop", s.client)


(***************************************************************************)
(* configureClient()                                                       *)
(***************************************************************************)
\* qMax(uint(msecs), 0u) / 1000u.  uint(msecs) is msecs for msecs >= 0 and
\* 2^32 + msecs for msecs < 0; 2^32 = UIntWrapThousands * 1000 + UIntWrapRest,
\* which keeps the arithmetic within 32-bit integers.
UIntWrapThousands == 4294967
UIntWrapRest == 296

TimeThreshold(msecs) ==
    IF msecs >= 0 THEN msecs \div 1000
    ELSE UIntWrapThousands + ((UIntWrapRest + msecs) \div 1000)

\* the switch over preferredPositioningMethods()
RequestedAccuracyLevel(methods) ==
    CASE methods = SatellitePositioningMethods -> GCLUE_ACCURACY_LEVEL_EXACT
      [] methods = NonSatellitePositioningMethods -> GCLUE_ACCURACY_LEVEL_STREET
      [] methods = AllPositioningMethods -> GCLUE_ACCURACY_LEVEL_EXACT
      [] OTHER -> GCLUE_ACCURACY_LEVEL_NONE

\* the value configureClient() returns
ConfigureClientResult(s) == s.client # NoClient /\ desktopId # ""

\* the state configureClient() leaves when updateInterval() is msecs and
\* preferredPositioningMethods() is methods
ConfigureClientWith(s, msecs, methods) ==
    IF s.client = NoClient THEN s
    ELSE IF desktopId = "" THEN SetError(s, AccessError)
    ELSE [s EXCEPT !.props =
              [desktopId |-> desktopId,
               timeThreshold |-> TimeThreshold(msecs),
               accuracy |-> RequestedAccuracyLevel(methods)]]

ConfigureClient(s) == ConfigureClientWith(s, updateInterval, preferredMethods)

(***************************************************************************)
(* handleNewLocation(oldLocation, newLocation).  loc is what newLocation   *)
(* resolves to: BadPath when the location object is not valid, else the    *)
(* QGeoPositionInfo built from it (NoFix when its coordinate is invalid).  *)
(***************************************************************************)
EmptyPath == -2
BadPath == -1
LocationRefs == {BadPath, NoFix} \cup Fixes

\* handleNewLocation() running stopClient() before it stores and emits the fix
HandleNewLocationStopFirst(s, loc) ==
    LET s1 == StopClient([s EXCEPT !.timer = 0])
    IN  IF loc = BadPath THEN s1
        ELSE [s1 EXCEPT !.lastPosition = loc,
                        !.events = Append(@, PositionEvent(loc)),
                        !.log = @ \o <<"store", "positionUpdated">>]

HandleNewLocation(s, loc) ==
    LET s1 == [s EXCEPT !.timer = 0]
        s2 == IF loc = BadPath THEN s1
              ELSE [s1 EXCEPT !.lastPosition = loc,
                              !.events = Append(@, PositionEvent(loc)),
                              !.log = @ \o <<"store", "positionUpdated">>]
    IN  StopClient(s2)

(***************************************************************************)
(* supportedPositioningMethods(): the mapping of AvailableAccuracyLevel.   *)
(***************************************************************************)
SupportedPositioningMethods(ok, accuracy) ==
    IF ~ok THEN NoPositioningMethods
    ELSE IF accuracy \in {GCLUE_ACCURACY_LEVEL_COUNTRY, GCLUE_ACCURACY_LEVEL_CITY,
                          GCLUE_ACCURACY_LEVEL_NEIGHBORHOOD, GCLUE_ACCURACY_LEVEL_STREET}
        THEN NonSatellitePositioningMethods
    ELSE IF accuracy = GCLUE_ACCURACY_LEVEL_EXACT THEN AllPositioningMethods
    ELSE NoPositioningMethods

(***************************************************************************)
(* The handlers.  Handler(o, s) installs the state s a handler leaves and  *)
(* records the handler o that ran.  An input of the environment (a public  *)
(* call, a signal, a timer expiry) is taken only while it leaves at most   *)
(* MaxPending calls outstanding and MaxQueued invocations queued; replies  *)
(* never add to either.  expiry records, for a timer expiry that found no  *)
(* continuous demand, whether a client existed then ("client",             *)
(* "noclient"), until demand is raised again ("none").                     *)
(***************************************************************************)
Op(name, outcome, arg) == [name |-> name, outcome |-> outcome, arg |-> arg]

Commit(o, s) ==
    /\ ~crashed
    /\ Len(s.pending) <= MaxPending
    /\ Len(s.queued) <= MaxQueued
    /\ m_running' = s.running
    /\ m_requestTimer' = s.timer
    /\ m_client' = s.client
    /\ live' = s.live
    /\ clientStarted' = s.started
    /\ clientProps' = s.props
    /\ m_error' = s.error
    /\ m_lastPosition' = s.lastPosition
    /\ pending' = s.pending
    /\ queued' = s.queued
    /\ crashed' = s.crashed
    /\ expiry' = IF o.name = "requestUpdateTimeout"
                 THEN (IF m_running THEN "none"
                       ELSE IF m_client # NoClient THEN "client" ELSE "noclient")
                 ELSE IF s.running \/ IsActive(s) THEN "none" ELSE expiry
    /\ op' = o
    /\ calls' = s.calls
    /\ events' = s.events
    /\ log' = s.log
    /\ UNCHANGED desktopId

\* a handler that leaves the settings of the base class alone
Handler(o, s) ==
    /\ ~crashed
    /\ Commit(o, s)
    /\ UNCHANGED <<updateInterval, preferredMethods>>

\* startUpdates() without its `already running' return
StartUpdatesBodyNoGuard(s) ==
    LET s1 == StartClient([s EXCEPT !.error = NoError, !.running = TRUE])
    IN  IF s1.lastPosition # NoFix
        THEN [s1 EXCEPT !.queued = Append(@, s1.lastPosition)]
        ELSE s1

\* startUpdates() emitting positionUpdated inside the call instead of queueing
StartUpdatesBodyDirect(s) ==
    IF s.running THEN s
    ELSE LET s1 == StartClient([s EXCEPT !.error = NoError, !.running = TRUE])
         IN  IF s1.lastPosition # NoFix
             THEN [s1 EXCEPT !.events = Append(@, PositionEvent(s1.lastPosition))]
             ELSE s1

\* startUpdates()
StartUpdatesBody(s) ==
    IF s.running THEN s
    ELSE LET s1 == StartClient([s EXCEPT !.error = NoError, !.running = TRUE])
         IN  IF s1.lastPosition # NoFix
             THEN [s1 EXCEPT !.queued = Append(@, s1.lastPosition)]
             ELSE s1

StartUpdates ==
    /\ ~crashed
    /\ Handler(Op("startUpdates", "", 0), StartUpdatesBody(Self))

\* stopUpdates()
StopUpdatesBody(s) ==
    IF ~s.running THEN s
    ELSE StopClient([s EXCEPT !.running = FALSE])

StopUpdates ==
    /\ ~crashed
    /\ Handler(Op("stopUpdates", "", 0), StopUpdatesBody(Self))

\* requestUpdate(timeout) without the return after the too-small timeout
RequestUpdateBodyNoReturn(s, timeout) ==
    IF IsActive(s) THEN s
    ELSE LET s1 == [s EXCEPT !.error = NoError]
             s2 == IF timeout < MINIMUM_UPDATE_INTERVAL /\ timeout # 0
                   THEN SetError(s1, UnknownSourceError) ELSE s1
         IN  StartClient(
                 [s2 EXCEPT !.timer = IF timeout # 0 THEN timeout
                                      ELSE UPDATE_TIMEOUT_COLD_START])

\* requestUpdate(timeout) without the `timer is active' return
RequestUpdateBodyNoGuard(s, timeout) ==
    LET s1 == [s EXCEPT !.error = NoError]
    IN  IF timeout < MINIMUM_UPDATE_INTERVAL /\ timeout # 0
        THEN SetError(s1, UnknownSourceError)
        ELSE StartClient(
                 [s1 EXCEPT !.timer = IF timeout # 0 THEN timeout
                                      ELSE UPDATE_TIMEOUT_COLD_START])

\* requestUpdate(timeout)
RequestUpdateBody(s, timeout) ==
    IF IsActive(s) THEN s
    ELSE LET s1 == [s EXCEPT !.error = NoError]
         IN  IF timeout < MINIMUM_UPDATE_INTERVAL /\ timeout # 0
             THEN SetError(s1, UnknownSourceError)
             ELSE StartClient(
                      [s1 EXCEPT !.timer = IF timeout # 0 THEN timeout
                                           ELSE UPDATE_TIMEOUT_COLD_START])

RequestUpdate ==
    /\ ~crashed
    /\ \E timeout \in Timeouts :
        Handler(Op("requestUpdate", "", timeout), RequestUpdateBody(Self, timeout))

\* requestUpdateTimeout() without its stopClient() call
RequestUpdateTimeoutBodyNoStop(s) ==
    SetError([s EXCEPT !.timer = 0], UnknownSourceError)

\* requestUpdateTimeout(): the single-shot timer has expired and is inactive
RequestUpdateTimeoutBody(s) ==
    StopClient(SetError([s EXCEPT !.timer = 0], UnknownSourceError))

RequestUpdateTimeout ==
    /\ m_requestTimer # 0
    /\ Handler(Op("requestUpdateTimeout", "", 0), RequestUpdateTimeoutBody(Self))

(***************************************************************************)
(* Replies.  The calls go to one D-Bus service over one connection, so the *)
(* replies arrive in the order of the calls; each one succeeds or fails.   *)
(***************************************************************************)
Replied(s) == [s EXCEPT !.pending = Tail(@)]

\* the finished-lambda of createClient(); outcome "invalid": the reply carries
\* a path for which the new proxy is not valid.  The handler is recorded with
\* the handle m_client held when the reply arrived.
\* the finished-lambda of createClient() without its `delete m_client'
CreateReplyBodyNoDelete(s, outcome) ==
    IF outcome = "error" THEN SetError(s, AccessError)
    ELSE LET s1 == [s EXCEPT !.client = NewClient(s),
                             !.live = @ \cup {NewClient(s)},
                             !.started = FALSE, !.props = NoProps]
         IN  IF outcome = "invalid" THEN SetError(DeleteClient(s1), AccessError)
             ELSE IF ConfigureClientResult(s1) THEN StartClient(ConfigureClient(s1))
             ELSE ConfigureClient(s1)

CreateReplyBody(s, outcome) ==
    IF outcome = "error" THEN SetError(s, AccessError)
    ELSE LET s1 == [DeleteClient(s) EXCEPT !.client = NewClient(s),
                                          !.live = @ \cup {NewClient(s)}]
         IN  IF outcome = "invalid" THEN SetError(DeleteClient(s1), AccessError)
             ELSE IF ConfigureClientResult(s1) THEN StartClient(ConfigureClient(s1))
             ELSE ConfigureClient(s1)

CreateReply ==
    /\ pending # <<>>
    /\ Head(pending).kind = "create"
    /\ \E outcome \in {"error", "invalid", "ok"} :
           Handler(Op("createReply", outcome, m_client),
                   CreateReplyBody(Replied(Self), outcome))

\* the finished-lambda of startClient().  on is the proxy Start() was called
\* on; loc is what m_client->location() refers to (EmptyPath: "" or "/").
\* With m_client null the read of m_client->location() is undefined: the
\* process dies (ub = "crash") or goes on with whatever the read produced.
StartReplyBody(s, on, outcome, loc, ub) ==
    IF outcome = "error" THEN SetError(DeleteClient(s), AccessError)
    ELSE IF s.client = NoClient /\ ub = "crash" THEN [s EXCEPT !.crashed = TRUE]
    ELSE LET s1 == IF on = s.client /\ s.client # NoClient
                   THEN [s EXCEPT !.started = TRUE] ELSE s
         IN  IF loc = EmptyPath THEN s1 ELSE HandleNewLocation(s1, loc)

StartReply ==
    /\ pending # <<>>
    /\ Head(pending).kind = "start"
    /\ \E outcome \in {"error", "ok"}, loc \in {EmptyPath} \cup LocationRefs,
          ub \in {"crash", "goes on"} :
           /\ outcome = "error" => loc = EmptyPath
           /\ (outcome = "error" \/ m_client # NoClient) => ub = "goes on"
           /\ Handler(Op("startReply", outcome, loc),
                      StartReplyBody(Replied(Self), Head(pending).client, outcome, loc, ub))

\* the finished-lambda of stopClient()
\* the finished-lambda of stopClient() keeping the handle of a failed stop
StopReplyBodyKeepOnError(s, outcome) ==
    IF outcome = "error" THEN SetError(s, AccessError) ELSE DeleteClient(s)

StopReplyBody(s, outcome) ==
    DeleteClient(IF outcome = "error" THEN SetError(s, AccessError) ELSE s)

StopReply ==
    /\ pending # <<>>
    /\ Head(pending).kind = "stop"
    /\ \E outcome \in {"error", "ok"} :
           Handler(Op("stopReply", outcome, 0), StopReplyBody(Replied(Self), outcome))

(***************************************************************************)
(* The LocationUpdated signal of the client proxy, connected to            *)
(* handleNewLocation: the service sends it for a started client, and only  *)
(* a live proxy delivers it.                                               *)
(***************************************************************************)
LocationUpdated ==
    /\ m_client # NoClient
    /\ clientStarted
    /\ \E loc \in LocationRefs :
           Handler(Op("locationUpdated",
                      IF m_requestTimer # 0 THEN "timer stopped" ELSE "", loc),
                   HandleNewLocation(Self, loc))

(***************************************************************************)
(* The event loop delivers the positionUpdated invocation startUpdates()   *)
(* queued.                                                                 *)
(***************************************************************************)
DeliverQueuedBody(s) ==
    [s EXCEPT !.queued = Tail(@), !.events = Append(@, PositionEvent(Head(s.queued))),
              !.log = Append(@, "positionUpdated")]

DeliverQueued ==
    /\ queued # <<>>
    /\ Handler(Op("positionUpdated", "", Head(queued)), DeliverQueuedBody(Self))

(***************************************************************************)
(* supportedPositioningMethods(): ok is whether AvailableAccuracyLevel     *)
(* could be read.                                                          *)
(***************************************************************************)
AccuracyLevels ==
    {GCLUE_ACCURACY_LEVEL_NONE, GCLUE_ACCURACY_LEVEL_COUNTRY, GCLUE_ACCURACY_LEVEL_CITY,
     GCLUE_ACCURACY_LEVEL_NEIGHBORHOOD, GCLUE_ACCURACY_LEVEL_STREET,
     GCLUE_ACCURACY_LEVEL_EXACT}

SupportedPositioningMethodsBody(s, ok) ==
    IF ~ok THEN SetError(s, AccessError) ELSE s

SupportedPositioningMethodsCall ==
    /\ ~crashed
    /\ \E ok \in BOOLEAN, accuracy \in AccuracyLevels :
        /\ ~ok => accuracy = GCLUE_ACCURACY_LEVEL_NONE
        /\ Handler(Op("supportedPositioningMethods",
                      SupportedPositioningMethods(ok, accuracy), IF ok THEN 0 ELSE -1),
                   SupportedPositioningMethodsBody(Self, ok))

(***************************************************************************)
(* The state after construction: no demand, no client, the timer idle, the *)
(* last fix restored from the file if there was one.                       *)
(***************************************************************************)
Init ==
    /\ m_running = FALSE
    /\ m_requestTimer = 0
    /\ m_client = NoClient
    /\ live = {}
    /\ clientStarted = FALSE
    /\ clientProps = NoProps
    /\ m_error = NoError
    /\ m_lastPosition \in {NoFix} \cup Fixes
    /\ pending = <<>>
    /\ queued = <<>>
    /\ desktopId \in {"", "app"}
    /\ updateInterval = 0
    /\ preferredMethods = AllPositioningMethods
    /\ crashed = FALSE
    /\ expiry = "none"
    /\ op = Op("constructor", "", 0)
    /\ calls = <<>>
    /\ events = <<>>
    /\ log = <<>>

(***************************************************************************)
(* setUpdateInterval(msec) and setPreferredPositioningMethods(methods):    *)
(* the setter of the base class stores its argument, then configureClient()*)
(* reads it back.                                                          *)
(***************************************************************************)
\* arguments of setUpdateInterval() the environment tries
Intervals == {-1, 2500}

BaseSetUpdateInterval(msec) == updateInterval' = msec

BaseSetPreferredPositioningMethods(methods) == preferredMethods' = methods

SetUpdateIntervalBody(s, msec) == ConfigureClientWith(s, msec, preferredMethods)

SetUpdateInterval ==
    /\ ~crashed
    /\ \E msec \in Intervals :
           /\ BaseSetUpdateInterval(msec)
           /\ Commit(Op("setUpdateInterval", "", msec), SetUpdateIntervalBody(Self, msec))
    /\ UNCHANGED preferredMethods

SetPreferredPositioningMethodsBody(s, methods) ==
    ConfigureClientWith(s, updateInterval, methods)

SetPreferredPositioningMethods ==
    /\ ~crashed
    /\ \E methods \in Methods :
           /\ BaseSetPreferredPositioningMethods(methods)
           /\ Commit(Op("setPreferredPositioningMethods", "", 0),
                     SetPreferredPositioningMethodsBody(Self, methods))
    /\ UNCHANGED updateInterval

Next ==
    \/ StartUpdates
    \/ StopUpdates
    \/ RequestUpdate
    \/ RequestUpdateTimeout
    \/ CreateReply
    \/ StartReply
    \/ StopReply
    \/ LocationUpdated
    \/ DeliverQueued
    \/ SupportedPositioningMethodsCall

Spec == Init /\ [][Next]_vars

\* Every outstanding reply is eventually delivered (replies arrive in the
\* order of the calls, so the reply at the head stays deliverable until it is
\* delivered), the event loop delivers a queued invocation, and the
\* single-shot timer fires if it stays active.
FairSpec ==
    /\ Spec
    /\ WF_vars(CreateReply)
    /\ WF_vars(StartReply)
    /\ WF_vars(StopReply)
    /\ WF_vars(DeliverQueued)
    /\ SF_vars(RequestUpdateTimeout)

\* the source with its settings changed while it runs
NextConfig ==
    \/ Next
    \/ SetUpdateInterval
    \/ SetPreferredPositioningMethods

SpecConfig == Init /\ [][NextConfig]_vars

(***************************************************************************)
(* Properties.                                                             *)
(***************************************************************************)
\* no create, start or stop reply is outstanding
Settled == pending = <<>>

\* continuous demand or single-shot demand
Demand == m_running \/ m_requestTimer # 0

\* the D-Bus calls of one kind in a sequence of calls
CallsOfKind(cs, k) == {i \in 1..Len(cs) : cs[i].kind = k}

ErrorEvents(es) == {i \in 1..Len(es) : es[i].type = "error"}
PositionEvents(es) == {i \in 1..Len(es) : es[i].type = "positionUpdated"}

\* C1: in every settled state (no create, start or stop reply outstanding) a
\* session handle exists and is started if and only if continuousActive is
\* true or the deadline timer is active.
C1_SettledSessionIffDemand ==
    (Settled /\ ~crashed) => ((m_client # NoClient /\ clientStarted) <=> Demand)

\* the handler that ran last was a notification that resolved to a fix while
\* only the deadline timer asked for the session, and it issued the stop call
DeadlineNotificationStopped ==
    /\ op.name = "locationUpdated"
    /\ op.outcome = "timer stopped"
    /\ PositionEvents(events) # {}
    /\ calls = <<Call("stop", m_client)>>

\* C2: a location-changed notification processed successfully while the timer
\* is active and continuousActive is false issues exactly one stop call for
\* the session, and what arrives next, before the stop reply, issues no second
\* stop call for that session; with continuousActive true the notification
\* issues no stop call and the session stays started.
C2_StopIssuedExactlyOnce ==
    [][/\ (op'.name = "locationUpdated" /\ PositionEvents(events') # {}
           /\ m_requestTimer # 0 /\ ~m_running)
          => calls' = <<Call("stop", m_client)>>
       /\ (DeadlineNotificationStopped /\ op'.name # "stopReply")
          => \A i \in 1..Len(calls') : calls'[i] # Call("stop", m_client)
       /\ (op'.name = "locationUpdated" /\ PositionEvents(events') # {} /\ m_running)
          => (calls' = <<>> /\ m_client' = m_client /\ clientStarted')]_vars

\* the handler that ran last reported a create-session failure or a start
\* failure
CreateOrStartFailed(o) ==
    \/ o.name = "createReply" /\ o.outcome \in {"error", "invalid"}
    \/ o.name = "startReply" /\ o.outcome = "error"

\* C3: after a create-session failure or a start failure has been reported as
\* AccessError no session handle exists, and the next startUpdates() call or
\* requestUpdate() call with an accepted timeout issues a create-session
\* request.
C3_RetryAfterFailure ==
    [][/\ CreateOrStartFailed(op') => (m_error' = AccessError /\ m_client' = NoClient)
       /\ (/\ CreateOrStartFailed(op)
           /\ \/ op'.name = "startUpdates"
              \/ op'.name = "requestUpdate"
                 /\ (op'.arg = 0 \/ op'.arg >= MINIMUM_UPDATE_INTERVAL))
          => CallsOfKind(calls', "create") # {}]_vars

C5_NoStartWithoutIdentity ==
    desktopId = "" =>
        /\ CallsOfKind(calls, "start") = {}
        /\ (op.name = "createReply" /\ op.outcome = "ok") => m_error = AccessError

\* C6: startUpdates() with continuousActive true, and stopUpdates() with
\* continuousActive false, issue no call, emit no event and leave the session
\* handle, both demand flags, the timer, the stored error and the stored fix
\* unchanged.
C6_IdempotentStartStop ==
    [][((op'.name = "startUpdates" /\ m_running)
        \/ (op'.name = "stopUpdates" /\ ~m_running))
       => (/\ calls' = <<>>
           /\ events' = <<>>
           /\ UNCHANGED <<m_client, clientStarted, clientProps, m_running,
                          m_requestTimer, m_error, m_lastPosition, pending, queued>>)]_vars

\* C6 witness: startUpdates() was called on a started session that was
\* already running, after an error had been stored and with a fix stored.
C6_Witness ==
    /\ op.name = "startUpdates"
    /\ calls = <<>>
    /\ m_running
    /\ m_client # NoClient
    /\ clientStarted
    /\ m_error # NoError
    /\ m_lastPosition # NoFix

\* C7: requestUpdate(t) with t nonzero and below 1000, called while the timer
\* is not active, emits exactly one event, the error UnknownSourceError, does
\* not start the timer, issues no call and leaves the session handle and
\* continuousActive unchanged.
C7_TooSmallTimeoutRejected ==
    [][(op'.name = "requestUpdate" /\ op'.arg # 0 /\ op'.arg < 1000
        /\ m_requestTimer = 0)
       => (/\ events' = <<ErrorEvent(UnknownSourceError)>>
           /\ m_error' = UnknownSourceError
           /\ m_requestTimer' = 0
           /\ calls' = <<>>
           /\ UNCHANGED <<m_client, clientStarted, m_running, pending, queued>>)]_vars

\* C7 witness: requestUpdate(999) was rejected while continuous updates ran
\* on a started session.
C7_Witness ==
    /\ op.name = "requestUpdate"
    /\ op.arg = 999
    /\ events = <<ErrorEvent(UnknownSourceError)>>
    /\ m_requestTimer = 0
    /\ m_running
    /\ clientStarted

\* C8: requestUpdate(t), for any t, called while the timer is active leaves
\* the timer's deadline as it is, issues no call, emits no event, leaves the
\* stored error unchanged and queues nothing.
C8_RequestWhileTimerActiveIgnored ==
    [][(op'.name = "requestUpdate" /\ m_requestTimer # 0)
       => (/\ calls' = <<>>
           /\ events' = <<>>
           /\ UNCHANGED <<m_requestTimer, m_error, pending, queued, m_client,
                          clientStarted, m_running, m_lastPosition>>)]_vars

\* C8 witness: requestUpdate(1000) was called while the cold-start deadline
\* was running and an error was stored; the deadline is still the cold-start
\* one.
C8_Witness ==
    /\ op.name = "requestUpdate"
    /\ op.arg = 1000
    /\ m_requestTimer = UPDATE_TIMEOUT_COLD_START
    /\ m_error = AccessError

\* the error kind the handler that ran last had to report (NoError: none)
ErrorOccurred ==
    CASE op.name = "createReply" /\ op.outcome \in {"error", "invalid"} -> AccessError
      [] op.name = "createReply" /\ op.outcome = "ok" /\ desktopId = "" -> AccessError
      [] op.name = "startReply" /\ op.outcome = "error" -> AccessError
      [] op.name = "stopReply" /\ op.outcome = "error" -> AccessError
      [] op.name = "requestUpdate" /\ op.arg # 0 /\ op.arg < 1000
             /\ m_requestTimer = 0 -> UnknownSourceError
      [] op.name = "requestUpdateTimeout" -> UnknownSourceError
      [] op.name = "supportedPositioningMethods" /\ op.arg = -1 -> AccessError
      [] OTHER -> NoError

\* C9: every error occurrence stores its kind as the latest error and emits
\* exactly one error event carrying that kind; a handler without an error
\* occurrence emits no error event; no error event carries the kind NoError.
C9_ErrorStoredAndEmittedOnce ==
    /\ ErrorOccurred # NoError
          => (/\ m_error = ErrorOccurred
              /\ Cardinality(ErrorEvents(events)) = 1
              /\ \A i \in ErrorEvents(events) : events[i].kind = ErrorOccurred)
    /\ ErrorOccurred = NoError => ErrorEvents(events) = {}
    /\ \A i \in ErrorEvents(events) : events[i].kind # NoError

\* C9 witness: a stop failure was reported after the timer's expiry had
\* stored UnknownSourceError.
C9_Witness ==
    /\ op.name = "stopReply"
    /\ op.outcome = "error"
    /\ expiry = "client"
    /\ m_error = AccessError
    /\ events = <<ErrorEvent(AccessError)>>

\* C10: startUpdates() with continuousActive false sets it true, emits no
\* positionUpdated inside the call, and queues exactly one delivery of the
\* stored fix if that fix is valid and none otherwise; the event loop later
\* delivers exactly the queued fix, once.
C10_LastFixRedeliveredLater ==
    [][/\ (op'.name = "startUpdates" /\ ~m_running)
          => (/\ m_running'
              /\ PositionEvents(events') = {}
              /\ queued' = IF m_lastPosition # NoFix
                           THEN Append(queued, m_lastPosition) ELSE queued)
       /\ op'.name = "positionUpdated"
          => (/\ queued # <<>>
              /\ events' = <<PositionEvent(Head(queued))>>
              /\ queued' = Tail(queued))]_vars

\* C10 witness: the fix queued by startUpdates() has been delivered after a
\* notification had replaced the stored fix by another one.
C10_Witness ==
    /\ op.name = "positionUpdated"
    /\ m_running
    /\ events = <<PositionEvent(op.arg)>>
    /\ op.arg # NoFix
    /\ m_lastPosition # op.arg

\* a create-session reply succeeds in this step, after both demand flags have
\* become false
LateCreateSuccess ==
    /\ op'.name = "createReply"
    /\ op'.outcome = "ok"
    /\ ~Demand

C12_CreateOnlyFromNoSession ==
    [][CallsOfKind(calls', "create") # {}
          => (/\ m_client = NoClient
              /\ CallsOfKind(pending, "create") = {}
              /\ Cardinality(CallsOfKind(calls', "create")) = 1)]_vars

\* C13: at most one session handle is held at any time: the only live proxy
\* object is the one m_client refers to, and a successful create completion
\* that arrives while a handle exists has discarded that handle.
C13_AtMostOneSessionHandle ==
    /\ live = (IF m_client = NoClient THEN {} ELSE {m_client})
    /\ (op.name = "createReply" /\ op.outcome # "error" /\ op.arg # NoClient)
          => op.arg \notin live

\* C13 witness: a create call succeeded while a handle was held; the new
\* handle is the only live one.
C13_Witness ==
    /\ op.name = "createReply"
    /\ op.outcome = "ok"
    /\ op.arg # NoClient
    /\ m_client # NoClient
    /\ m_client # op.arg
    /\ live = {m_client}

\* C14: every completion of a stop call, success or failure, leaves no session
\* handle; a failed stop reports AccessError exactly once and a successful
\* stop reports no error.
C14_StopCompletionDiscardsSession ==
    op.name = "stopReply" =>
        /\ m_client = NoClient
        /\ live = {}
        /\ op.outcome = "error" =>
               (events = <<ErrorEvent(AccessError)>> /\ m_error = AccessError)
        /\ op.outcome = "ok" => events = <<>>

\* C14 witness: the stop call issued by stopUpdates() has failed; the error
\* is reported and the handle is gone.
C14_Witness ==
    /\ op.name = "stopReply"
    /\ op.outcome = "error"
    /\ expiry = "none"
    /\ ~Demand
    /\ Settled
    /\ m_client = NoClient
    /\ Len(events) = 1

\* C15: a stop call is issued only by a handler that leaves continuousActive
\* false, the deadline timer not active and a session handle held, and the
\* call goes to that handle; the handlers that issue it are stopUpdates(),
\* the deadline expiry and the handling of a notified or initial location.
C15_StopOnlyWithoutDemand ==
    \A i \in CallsOfKind(calls, "stop") :
        /\ ~m_running
        /\ m_requestTimer = 0
        /\ m_client # NoClient
        /\ calls[i].client = m_client
        /\ op.name \in {"stopUpdates", "requestUpdateTimeout", "locationUpdated",
                         "startReply"}

\* C15 witness: the deadline expired with no continuous demand and a handle
\* held, and the expiry handler issued the stop call.
C15_Witness ==
    /\ op.name = "requestUpdateTimeout"
    /\ m_client # NoClient
    /\ calls = <<Call("stop", m_client)>>
    /\ ~Demand

\* C16: for every location-changed notification that resolves, the stored fix
\* is replaced by the notified one and positionUpdated is emitted with it
\* before stopClient() runs for that notification, whatever the demand.
C16_FixStoredAndEmittedBeforeStopCheck ==
    (op.name = "locationUpdated" /\ op.arg # BadPath) =>
        /\ m_lastPosition = op.arg
        /\ events = <<PositionEvent(op.arg)>>
        /\ Len(log) >= 3
        /\ SubSeq(log, 1, 3) = <<"store", "positionUpdated", "stopClient">>
        /\ \A i \in 4..Len(log) : log[i] = "stop"

\* C16 witness: a notification arrived with both demand flags false and the
\* timer not active; the fix was stored and emitted, then the stop was issued.
C16_Witness ==
    /\ op.name = "locationUpdated"
    /\ op.outcome = ""
    /\ op.arg # BadPath
    /\ ~Demand
    /\ m_lastPosition = op.arg
    /\ log = <<"store", "positionUpdated", "stopClient", "stop">>

\* a setter of the update interval or of the preferred positioning methods
\* runs in this step
SetterStep == op'.name \in {"setUpdateInterval", "setPreferredPositioningMethods"}

\* C17: a setter called while a session handle exists pushes the time
\* threshold and the requested accuracy of the new settings to that session,
\* issues no create, start or stop call and leaves the handle, both demand
\* flags, the deadline timer and the stored fix unchanged.
C17_SettersPushConfiguration ==
    [][(SetterStep /\ m_client # NoClient) =>
          /\ clientProps'.timeThreshold = TimeThreshold(updateInterval')
          /\ clientProps'.accuracy = RequestedAccuracyLevel(preferredMethods')
          /\ calls' = <<>>
          /\ pending' = pending
          /\ UNCHANGED <<m_client, clientStarted, m_running, m_requestTimer,
                         m_lastPosition>>]_vars

\* C18: a start-success completion, which reads the current location of the
\* session, runs only while a session handle exists, also when the
\* application identity is set and the handler that ran just before it was
\* the completion of a stop call.
C18_StartSuccessWithSessionHandle ==
    [][(/\ op'.name = "startReply"
        /\ op'.outcome = "ok"
        /\ op.name = "stopReply"
        /\ desktopId # "")
          => m_client # NoClient]_vars

\* C19: whenever a stop completion discards the session handle, both demand
\* flags are false at that moment.
C19_StopCompletionWithoutDemand ==
    [][(/\ op'.name = "stopReply"
        /\ m_client # NoClient
        /\ m_client' = NoClient
        /\ desktopId # "")
          => (~m_running /\ m_requestTimer = 0)]_vars

\* requestUpdate() has just been accepted, with the application identity
\* set: it started the deadline timer and asked for a session
RequestAccepted ==
    /\ desktopId # ""
    /\ op.name = "requestUpdate"
    /\ m_requestTimer # 0
    /\ calls # <<>>

\* the handler that ran last emitted positionUpdated or an error event
EventEmitted == PositionEvents(events) # {} \/ ErrorEvents(events) # {}

\* C20: every accepted requestUpdate() is eventually followed by a
\* positionUpdated or an error event, given that every outstanding reply is
\* delivered and the timer fires if it stays active (runs that end in the
\* undefined read of C18 are left aside).
C20_AcceptedRequestAnswered == RequestAccepted ~> (EventEmitted \/ crashed)

=============================================================================
